---- MODULE Spec2Model ----
(***************************************************************************)
(* Jira worklog dashboard: the remote query client (jira_client.py) and    *)
(* the rendering cycle of the dashboard (app.py).                          *)
(*                                                                         *)
(* Python values.  An optional value (a dict key that may be absent, or a  *)
(* value that may be None) is a set with at most one element: {} is        *)
(* "absent or None", {x} is the value x.  A str that the code slices is a  *)
(* sequence of one-character strings; a str that the code only compares    *)
(* or copies is a TLA+ string.  A date is its proleptic Gregorian ordinal  *)
(* (date.toordinal()).                                                     *)
(***************************************************************************)
EXTENDS Integers, Sequences, FiniteSets, Bags, TLC

VARIABLES
    \* search_issues_jql_v3 (one call)
    s_pc, s_jql, s_fields, issues, next_page_token, s_sent, s_recv, s_ret,
    \* get_issue_worklogs_v3 (one call) and the server it talks to
    w_pc, issue_key, start_at, out, w_sent, w_recv, w_ret, srv_total,
    \* st.cache_data: the two memoized functions' entries and the clock; what
    \* the last cached call or refresh did; the keys successfully computed
    \* since the last refresh, with the value computed
    search_cache, worklog_cache, now, ticks, last_call, fresh,
    \* one rendering cycle of app.py: position, sidebar inputs, effective
    \* query, search result, table, message shown, views produced, selections
    c_pc, date_from, date_to, jql_effective, app_issues, df, shown, views, sel, df_view,
    \* build_dataframe: the worker limit of the run, position, issues_info,
    \* rows, loop index (sequential branch), futures and pending exception
    \* (thread pool), and what each fetch gave, in the order they ended
    max_workers, b_pc, issues_info, rows, b_i, futs, b_exc, fetched,
    \* the row normalizers applied to one batch of work logs: the batch, the
    \* result of _rows_from_worklogs, the result of fetch_worklogs_by_jql
    n_batch, n_app, n_client

clientVars == <<s_pc, s_jql, s_fields, issues, next_page_token, s_sent, s_recv, s_ret,
                w_pc, issue_key, start_at, out, w_sent, w_recv, w_ret, srv_total>>

cacheVars == <<search_cache, worklog_cache, now, ticks, last_call, fresh>>

cycleVars == <<c_pc, date_from, date_to, jql_effective, app_issues, df, shown, views, sel,
               df_view>>

rowsVars == <<n_batch, n_app, n_client>>

buildVars == <<max_workers, b_pc, issues_info, rows, b_i, futs, b_exc, fetched>>

nonClientVars == <<cacheVars, cycleVars, buildVars, rowsVars>>

nonCacheVars == <<clientVars, cycleVars, buildVars, rowsVars>>

vars == <<clientVars, cacheVars, cycleVars, buildVars, rowsVars>>

\* ------------------------------------------------------------------------
\* Bounds of the model
\* ------------------------------------------------------------------------
\* Requests one search call may issue before the model stops following it.
MaxPages == 3
\* Largest number of work logs the server holds for one issue.
MaxTotal == 3
\* Largest number of clock advances in one behaviour of the cache.
MaxTicks == 2
\* Largest number of work logs one issue has in a rendering cycle.
MaxLogs == 2
\* Largest batch of work logs handed to the row normalizers.
MaxBatch == 2
\* Largest table handed to the filters.
MaxRows == 2

\* ------------------------------------------------------------------------
\* Python helpers
\* ------------------------------------------------------------------------
NONE == {}

Some(x) == {x}

Val(o) == CHOOSE x \in o : TRUE

\* `o or d` for an optional str / list / number o.
OrDefault(o, d) == IF o = NONE THEN d ELSE Val(o)

\* Truth value of an optional str: None and "" are falsy.
TruthyStr(o) == o # NONE /\ o # Some("")

Min(a, b) == IF a <= b THEN a ELSE b

Last(s) == s[Len(s)]

RECURSIVE Concat(_)
Concat(ss) == IF ss = <<>> THEN <<>> ELSE Head(ss) \o Concat(Tail(ss))

RECURSIVE SumLen(_)
SumLen(ss) == IF ss = <<>> THEN 0 ELSE Len(Head(ss)) + SumLen(Tail(ss))

\* ------------------------------------------------------------------------
\* The issues the tracker holds (dicts of the search response)
\* ------------------------------------------------------------------------
EmptyFields ==
    [summary |-> NONE, issuetype |-> NONE, status |-> NONE,
     originalEstimateSeconds |-> NONE, timeoriginalestimate |-> NONE]

I1 == [key |-> Some("K-1"),
       fields |-> Some([summary |-> Some("Fix login"), issuetype |-> Some("Bug"),
                        status |-> Some("Open"), originalEstimateSeconds |-> Some(7200),
                        timeoriginalestimate |-> NONE])]

I2 == [key |-> Some("K-2"),
       fields |-> Some([summary |-> NONE, issuetype |-> Some("Task"),
                        status |-> Some("Done"), originalEstimateSeconds |-> NONE,
                        timeoriginalestimate |-> Some(3600)])]

\* An issue without a key (and without fields).
I3 == [key |-> NONE, fields |-> NONE]

IssueKeys == {"K-1", "K-2"}

\* ------------------------------------------------------------------------
\* HTTP responses
\* ------------------------------------------------------------------------
\* Error bodies: one that parses as JSON, one that does not.
ErrorBodies == { [is_json |-> TRUE,  text |-> "{errorMessages}"],
                 [is_json |-> FALSE, text |-> "Bad Gateway"] }

NoBody == [is_json |-> FALSE, text |-> ""]

ErrorStatuses == {401, 502}

\* resp.json() of an error body, falling back to resp.text.
ErrorDetails(resp) ==
    IF resp.body.is_json THEN [json |-> resp.body.text] ELSE [text |-> resp.body.text]

Tokens == {NONE, Some(""), Some("t1"), Some("t2")}

Batches == {NONE, Some(<<>>), Some(<<I1>>), Some(<<I2>>), Some(<<I1, I2>>)}

SearchResponses ==
    [ok : {TRUE}, status : {200}, body : {NoBody}, issues : Batches, nextPageToken : Tokens]
    \cup
    [ok : {FALSE}, status : ErrorStatuses, body : ErrorBodies, issues : {NONE},
     nextPageToken : {NONE}]

\* What the work-log endpoint holds for an issue: `total` entries, in order.
ServerWorklogs(key, total) == [i \in 1..total |-> [id |-> i, issue |-> key]]

\* max_results of get_issue_worklogs_v3
max_results == 100

\* The answers the work-log endpoint can give to a request at offset startAt:
\* a page of the entries from that offset on (possibly short, possibly empty,
\* the list possibly absent), with or without the total, or an error.
WorklogResponses(key, total, startAt, maxResults) ==
    { [ok |-> TRUE, status |-> 200, body |-> NoBody, worklogs |-> wl, total |-> t] :
        wl \in {NONE} \cup
               { Some(SubSeq(ServerWorklogs(key, total), startAt + 1, startAt + n)) :
                   n \in 0..Min(maxResults, total - startAt) },
        t \in {NONE, Some(total)} }
    \cup
    [ok : {FALSE}, status : ErrorStatuses, body : ErrorBodies, worklogs : {NONE},
     total : {NONE}]

\* ------------------------------------------------------------------------
\* search_issues_jql_v3
\* ------------------------------------------------------------------------
DefaultFields == <<"summary", "issuetype">>

\* The request body of one iteration (nextPageToken only when truthy).
SearchPayloadNoToken(jql, fields, token) ==
    [jql |-> jql, fields |-> fields, nextPageToken |-> NONE]

SearchPayload(jql, fields, token) ==
    [jql |-> jql, fields |-> fields,
     nextPageToken |-> IF TruthyStr(token) THEN token ELSE NONE]

SearchError(resp) ==
    [endpoint |-> <<"/search/jql">>, status |-> resp.status, details |-> ErrorDetails(resp)]

\* `not resp.ok`
NotOkSwallowed(resp) == FALSE

NotOk(resp) == ~resp.ok

SearchCall(jql, fields) ==
    /\ s_pc = "idle" /\ w_pc = "idle"
    /\ s_pc' = "loop"
    /\ s_jql' = jql
    /\ s_fields' = OrDefault(fields, DefaultFields)
    /\ issues' = <<>>
    /\ next_page_token' = NONE
    /\ UNCHANGED <<s_sent, s_recv, s_ret>>
    /\ UNCHANGED <<w_pc, issue_key, start_at, out, w_sent, w_recv, w_ret, srv_total>>
    /\ UNCHANGED nonClientVars

\* One iteration of the while loop: the request, the response, and what follows.
SearchPage(resp) ==
    /\ s_pc = "loop"
    /\ Len(s_sent) < MaxPages
    /\ s_sent' = Append(s_sent, SearchPayload(s_jql, s_fields, next_page_token))
    /\ s_recv' = Append(s_recv, resp)
    /\ IF NotOk(resp)
       THEN /\ s_pc' = "raised"
            /\ s_ret' = [kind |-> "raise", error |-> SearchError(resp)]
            /\ UNCHANGED <<issues, next_page_token>>
       ELSE /\ issues' = issues \o OrDefault(resp.issues, <<>>)
            /\ next_page_token' = resp.nextPageToken
            /\ IF TruthyStr(resp.nextPageToken)
               THEN s_pc' = "loop" /\ UNCHANGED s_ret
               ELSE s_pc' = "returned" /\ s_ret' = [kind |-> "return", value |-> issues']
    /\ UNCHANGED <<s_jql, s_fields>>
    /\ UNCHANGED <<w_pc, issue_key, start_at, out, w_sent, w_recv, w_ret, srv_total>>
    /\ UNCHANGED nonClientVars

\* ------------------------------------------------------------------------
\* get_issue_worklogs_v3
\* ------------------------------------------------------------------------
WorklogError(key, resp) ==
    [endpoint |-> <<"/issue/", key, "/worklog">>, status |-> resp.status,
     details |-> ErrorDetails(resp)]

\* start_at += len(wls)
NextStartAtByPageSize(startAt, wls) == startAt + max_results

NextStartAt(startAt, wls) == startAt + Len(wls)

WorklogCall(key, total) ==
    /\ s_pc = "idle" /\ w_pc = "idle"
    /\ w_pc' = "loop"
    /\ issue_key' = key
    /\ srv_total' = total
    /\ start_at' = 0
    /\ out' = <<>>
    /\ UNCHANGED <<w_sent, w_recv, w_ret>>
    /\ UNCHANGED <<s_pc, s_jql, s_fields, issues, next_page_token, s_sent, s_recv, s_ret>>
    /\ UNCHANGED nonClientVars

\* One iteration of the while loop.
WorklogPage(resp) ==
    /\ w_pc = "loop"
    /\ w_sent' = Append(w_sent, [startAt |-> start_at, maxResults |-> max_results])
    /\ w_recv' = Append(w_recv, resp)
    /\ IF NotOk(resp)
       THEN /\ w_pc' = "raised"
            /\ w_ret' = [kind |-> "raise", error |-> WorklogError(issue_key, resp)]
            /\ UNCHANGED <<start_at, out>>
       ELSE LET wls   == OrDefault(resp.worklogs, <<>>)
                total == OrDefault(resp.total, 0)
            IN  /\ out' = out \o wls
                /\ start_at' = NextStartAt(start_at, wls)
                /\ IF wls = <<>> \/ start_at' >= total
                   THEN w_pc' = "returned" /\ w_ret' = [kind |-> "return", value |-> out']
                   ELSE w_pc' = "loop" /\ UNCHANGED w_ret
    /\ UNCHANGED <<issue_key, srv_total>>
    /\ UNCHANGED <<s_pc, s_jql, s_fields, issues, next_page_token, s_sent, s_recv, s_ret>>
    /\ UNCHANGED nonClientVars

Pending == [kind |-> "pending"]

InitClient ==
    /\ s_pc = "idle" /\ s_jql = "" /\ s_fields = <<>> /\ issues = <<>>
    /\ next_page_token = NONE /\ s_sent = <<>> /\ s_recv = <<>> /\ s_ret = Pending
    /\ w_pc = "idle" /\ issue_key = "" /\ start_at = 0 /\ out = <<>>
    /\ w_sent = <<>> /\ w_recv = <<>> /\ w_ret = Pending /\ srv_total = 0

Jqls == {"project = KAN"}

FieldsArgs == {NONE, Some(<<"summary", "issuetype", "timetracking", "status">>)}

DoSearchCall == \E jql \in Jqls, fields \in FieldsArgs : SearchCall(jql, fields)

DoSearchPage == \E resp \in SearchResponses : SearchPage(resp)

DoWorklogCall == \E key \in IssueKeys, total \in 0..MaxTotal : WorklogCall(key, total)

DoWorklogPage ==
    \E resp \in WorklogResponses(issue_key, srv_total, start_at, max_results) :
        WorklogPage(resp)

NextClient == DoSearchCall \/ DoSearchPage \/ DoWorklogCall \/ DoWorklogPage

\* ------------------------------------------------------------------------
\* Dates (datetime.date) and date strings
\* ------------------------------------------------------------------------
Date(y, m, d) == [year |-> y, month |-> m, day |-> d]

IsLeap(y) == (y % 4 = 0 /\ y % 100 # 0) \/ y % 400 = 0

DaysInMonth(y, m) ==
    IF m = 2 THEN (IF IsLeap(y) THEN 29 ELSE 28)
    ELSE IF m \in {4, 6, 9, 11} THEN 30 ELSE 31

\* date.__lt__ / date.__le__
DateLT(a, b) ==
    \/ a.year < b.year
    \/ a.year = b.year /\ a.month < b.month
    \/ a.year = b.year /\ a.month = b.month /\ a.day < b.day

DateLE(a, b) == a = b \/ DateLT(a, b)

NextDay(a) ==
    IF a.day < DaysInMonth(a.year, a.month) THEN Date(a.year, a.month, a.day + 1)
    ELSE IF a.month < 12 THEN Date(a.year, a.month + 1, 1)
    ELSE Date(a.year + 1, 1, 1)

PrevDay(a) ==
    IF a.day > 1 THEN Date(a.year, a.month, a.day - 1)
    ELSE IF a.month > 1 THEN Date(a.year, a.month - 1, DaysInMonth(a.year, a.month - 1))
    ELSE Date(a.year - 1, 12, 31)

\* date + timedelta(days=n), date - timedelta(days=n)
RECURSIVE PlusDays(_, _)
PlusDays(a, n) == IF n = 0 THEN a ELSE PlusDays(NextDay(a), n - 1)

RECURSIVE MinusDays(_, _)
MinusDays(a, n) == IF n = 0 THEN a ELSE MinusDays(PrevDay(a), n - 1)

DigitChars == <<"0", "1", "2", "3", "4", "5", "6", "7", "8", "9">>

IsDigit(c) == \E i \in 1..10 : DigitChars[i] = c

DigitVal(c) == (CHOOSE i \in 1..10 : DigitChars[i] = c) - 1

Digit(n) == DigitChars[n + 1]

\* date.isoformat(): YYYY-MM-DD
isoformat(a) ==
    << Digit(a.year \div 1000), Digit((a.year \div 100) % 10), Digit((a.year \div 10) % 10),
       Digit(a.year % 10), "-", Digit(a.month \div 10), Digit(a.month % 10), "-",
       Digit(a.day \div 10), Digit(a.day % 10) >>

\* s[:n]
Prefix(s, n) == SubSeq(s, 1, Min(n, Len(s)))

\* The date a YYYY-MM-DD string denotes, NONE when it denotes none.  This is
\* pd.to_datetime(text, errors="coerce") (NONE is NaT) and
\* datetime.strptime(text, "%Y-%m-%d") (NONE is ValueError) on the strings of
\* the model, which are either zero-padded ISO dates or no date in any format.
ParseDate(text) ==
    IF /\ Len(text) = 10
       /\ text[5] = "-" /\ text[8] = "-"
       /\ \A i \in {1, 2, 3, 4, 6, 7, 9, 10} : IsDigit(text[i])
    THEN LET y == 1000 * DigitVal(text[1]) + 100 * DigitVal(text[2])
                  + 10 * DigitVal(text[3]) + DigitVal(text[4])
             m == 10 * DigitVal(text[6]) + DigitVal(text[7])
             d == 10 * DigitVal(text[9]) + DigitVal(text[10])
         IN  IF y >= 1 /\ m \in 1..12 /\ d >= 1 /\ d <= DaysInMonth(y, m)
             THEN Some(Date(y, m, d)) ELSE NONE
    ELSE NONE

\* round(seconds / 3600, 2), in hundredths of an hour (ties to even).
RoundHours(seconds) ==
    LET q == seconds \div 36
        r == seconds % 36
    IN  IF r < 18 THEN q
        ELSE IF r > 18 THEN q + 1
        ELSE IF q % 2 = 0 THEN q ELSE q + 1

\* ------------------------------------------------------------------------
\* app.py: helpers
\* ------------------------------------------------------------------------
MAX_WORKERS == 10

MARGIN_DAYS == 3

default_jql == "project = KAN"

_issue_estimate_hours(fields) ==
    LET est_seconds == IF fields.originalEstimateSeconds = NONE
                       THEN fields.timeoriginalestimate
                       ELSE fields.originalEstimateSeconds
    IN  RoundHours(OrDefault(est_seconds, 0))

_issue_status_name(fields) == OrDefault(fields.status, "")

_issue_type_name(fields) == OrDefault(fields.issuetype, "")

\* wl_day < date_from or wl_day > date_to (the entry is skipped)
OutOfRangeWithMargin(wl_day, dfrom, dto) ==
    DateLT(wl_day, MinusDays(dfrom, MARGIN_DAYS)) \/ DateLT(PlusDays(dto, MARGIN_DAYS), wl_day)

OutOfRange(wl_day, dfrom, dto) == DateLT(wl_day, dfrom) \/ DateLT(dto, wl_day)

\* The body of the for loop of _rows_from_worklogs: the rows (none or one) of
\* one work-log entry.
RowsOfWorklog(wl, key, summary, issue_type, issue_status, est_hours, dfrom, dto) ==
    LET author_obj   == wl.author
        account_id   == IF author_obj = NONE THEN "" ELSE OrDefault(Val(author_obj).accountId, "")
        display_name == IF author_obj = NONE THEN "" ELSE OrDefault(Val(author_obj).displayName, "")
        started      == OrDefault(wl.started, <<>>)
        seconds      == OrDefault(wl.timeSpentSeconds, 0)
        wl_day_ts    == ParseDate(Prefix(started, 10))
    IN  IF started = <<>> THEN <<>>
        ELSE IF wl_day_ts = NONE THEN <<>>
        ELSE IF OutOfRange(Val(wl_day_ts), dfrom, dto) THEN <<>>
        ELSE << [Data |-> Val(wl_day_ts), Utente |-> display_name, UtenteId |-> account_id,
                 IssueType |-> issue_type, Issue |-> key, Summary |-> summary,
                 StimaOre |-> est_hours, Ore |-> RoundHours(seconds),
                 Stato |-> issue_status] >>

RECURSIVE _rows_from_worklogs(_, _, _, _, _, _, _, _)
_rows_from_worklogs(worklogs, key, summary, issue_type, issue_status, est_hours, dfrom, dto) ==
    IF worklogs = <<>> THEN <<>>
    ELSE RowsOfWorklog(Head(worklogs), key, summary, issue_type, issue_status, est_hours,
                       dfrom, dto)
         \o _rows_from_worklogs(Tail(worklogs), key, summary, issue_type, issue_status,
                                est_hours, dfrom, dto)

\* The effective query of a rendering cycle (the cache key of the search).
JqlEffective(dfrom, dto) ==
    [jql |-> default_jql,
     updated_from |-> isoformat(MinusDays(dfrom, MARGIN_DAYS)),
     updated_to   |-> isoformat(PlusDays(dto, MARGIN_DAYS))]

\* Work-log entries (dicts of the worklog response)
Ann == [accountId |-> Some("u1"), displayName |-> Some("Ann")]

TimeSuffix == <<"T", "0", "9", ":", "3", "0">>

WlOn(day, author, seconds) ==
    [author |-> author, started |-> Some(isoformat(day) \o TimeSuffix),
     timeSpentSeconds |-> Some(seconds)]

WlNoStart == [author |-> Some(Ann), started |-> NONE, timeSpentSeconds |-> Some(3600)]

\* The first day a user can ask for in the model; the margin before it lies
\* in the previous year.
D0 == Date(2024, 1, 2)

D1 == NextDay(D0)

\* ------------------------------------------------------------------------
\* app.py: CACHES (st.cache_data with a time-to-live)
\* ------------------------------------------------------------------------
TTL_SEARCH == 30 * 60

TTL_WORKLOG == 12 * 60 * 60

Ttl(slot) == IF slot = "search" THEN TTL_SEARCH ELSE TTL_WORKLOG

Slot(slot) == IF slot = "search" THEN search_cache ELSE worklog_cache

Lookup(cache, key) == {e \in cache : e.key = key}

\* Entries that are still alive at time t.
Alive(cache, ttl, t) == {e \in cache : t - e.stored_at < ttl}

\* st.cache_data.clear(): every memoized function's entries.
ClearSearchOnly == search_cache' = {} /\ UNCHANGED worklog_cache

st_cache_data_clear == search_cache' = {} /\ worklog_cache' = {}

\* A call of a memoized function: cached_search_issues(key) (slot "search")
\* or cached_issue_worklogs(key) (slot "worklog").  `outcome` is what the
\* wrapped client call gives if it is invoked: a return value or an error.
CachedCall(slot, key, outcome) ==
    LET hit == Lookup(Slot(slot), key)
        before == {f \in fresh[slot] : f.key = key}
        info == [kind |-> "call", slot |-> slot, key |-> key,
                 in_window |-> now < Ttl(slot), fresh_before |-> before]
    IN  IF hit # {}
        THEN /\ last_call' = info @@
                               [net |-> FALSE,
                                ret |-> [kind |-> "return", value |-> (CHOOSE e \in hit : TRUE).value]]
             /\ UNCHANGED <<search_cache, worklog_cache, fresh>>
        ELSE /\ last_call' = info @@ [net |-> TRUE, ret |-> outcome]
             /\ IF outcome.kind = "return"
                THEN LET entry == [key |-> key, value |-> outcome.value, stored_at |-> now]
                     IN  /\ IF slot = "search"
                            THEN search_cache' = search_cache \cup {entry}
                                 /\ UNCHANGED worklog_cache
                            ELSE worklog_cache' = worklog_cache \cup {entry}
                                 /\ UNCHANGED search_cache
                         /\ fresh' = [fresh EXCEPT ![slot] =
                                         (@ \ before) \cup {[key |-> key, value |-> outcome.value]}]
                ELSE UNCHANGED <<search_cache, worklog_cache, fresh>>

CacheErrors(slot, key) ==
    { [kind |-> "raise",
       error |-> IF slot = "search"
                 THEN SearchError([status |-> 502, body |-> [is_json |-> FALSE, text |-> "Bad Gateway"]])
                 ELSE WorklogError(key, [status |-> 502,
                                         body |-> [is_json |-> FALSE, text |-> "Bad Gateway"]])] }

CachedJqls == {JqlEffective(D0, D0), JqlEffective(D0, D1)}

CachedIssueKeys == IssueKeys

SearchValues == {<<I1>>, <<I1, I2>>}

WorklogValues == {<<>>, <<WlOn(D0, Some(Ann), 3600)>>}

cached_search_issues(jql, outcome) ==
    /\ CachedCall("search", jql, outcome)
    /\ UNCHANGED <<now, ticks>>
    /\ UNCHANGED nonCacheVars

cached_issue_worklogs(key, outcome) ==
    /\ CachedCall("worklog", key, outcome)
    /\ UNCHANGED <<now, ticks>>
    /\ UNCHANGED nonCacheVars

\* The "Aggiorna dati (svuota cache)" button of a rendering cycle.
Refresh ==
    /\ st_cache_data_clear
    /\ last_call' = [kind |-> "refresh"]
    /\ fresh' = [search |-> {}, worklog |-> {}]
    /\ UNCHANGED <<now, ticks>>
    /\ UNCHANGED nonCacheVars

\* Time passes; entries older than their time-to-live are gone.
Tick(d) ==
    /\ ticks < MaxTicks
    /\ ticks' = ticks + 1
    /\ now' = now + d
    /\ search_cache' = Alive(search_cache, TTL_SEARCH, now')
    /\ worklog_cache' = Alive(worklog_cache, TTL_WORKLOG, now')
    /\ last_call' = [kind |-> "tick"]
    /\ UNCHANGED fresh
    /\ UNCHANGED nonCacheVars

InitCache ==
    /\ search_cache = {} /\ worklog_cache = {} /\ now = 0 /\ ticks = 0
    /\ last_call = [kind |-> "start"] /\ fresh = [search |-> {}, worklog |-> {}]

DoCachedSearch ==
    \E jql \in CachedJqls :
        \E outcome \in {[kind |-> "return", value |-> v] : v \in SearchValues}
                        \cup CacheErrors("search", jql) :
            cached_search_issues(jql, outcome)

DoCachedWorklogs ==
    \E key \in CachedIssueKeys :
        \E outcome \in {[kind |-> "return", value |-> v] : v \in WorklogValues}
                        \cup CacheErrors("worklog", key) :
            cached_issue_worklogs(key, outcome)

DoTick == \E d \in {TTL_SEARCH, TTL_WORKLOG \div 2} : Tick(d)

NextCache == DoCachedSearch \/ DoCachedWorklogs \/ Refresh \/ DoTick

\* ------------------------------------------------------------------------
\* app.py: POST-FILTERS and the three views
\* ------------------------------------------------------------------------
\* The strings of the model in Python's order (by code point).
StrOrder == << "", "(tutti)", "Ann", "Bob", "Bug", "Done", "K-1", "K-2", "K-3", "Open", "Task",
               "u1", "u2" >>

Rank(x) == CHOOSE i \in 1..Len(StrOrder) : StrOrder[i] = x

StrLT(a, b) == Rank(a) < Rank(b)

Range(f) == {f[i] : i \in DOMAIN f}

\* sorted(S) for a set of strings
RECURSIVE SortedSeq(_)
SortedSeq(S) ==
    IF S = {} THEN <<>>
    ELSE LET m == CHOOSE x \in S : \A y \in S : ~StrLT(y, x)
         IN  <<m>> \o SortedSeq(S \ {m})

\* str(x).strip() is non-empty
NonBlank(x) == x # ""

ALL == "(tutti)"

statuses(frame) == <<ALL>> \o SortedSeq({r.Stato : r \in Range(frame)} \ {""})

types(frame) == <<ALL>> \o SortedSeq({r.IssueType : r \in Range(frame)} \ {""})

\* df.groupby("Utente")["UtenteId"]: the sorted distinct non-blank ids of a name
name_to_ids(frame) ==
    [name \in {r.Utente : r \in Range(frame)} |->
        SortedSeq({r.UtenteId : r \in {q \in Range(frame) : q.Utente = name}} \ {""})]

\* The label of a user option: the name, annotated with the number of ids
\* when there are several ("name (n)"); count 0 is the bare name.
UserLabel(name, ids) == [name |-> name, count |-> IF Len(ids) <= 1 THEN 0 ELSE Len(ids)]

AllUsers == [name |-> ALL, count |-> 0]

\* user_option_to_ids: option label -> list of ids (None for "(tutti)")
user_option_to_ids(frame) ==
    LET n2i  == name_to_ids(frame)
        names == {name \in DOMAIN n2i : NonBlank(name)}
        labels == {UserLabel(name, n2i[name]) : name \in names}
    IN  [l \in {AllUsers} \cup labels |->
            IF l = AllUsers THEN NONE ELSE Some(n2i[l.name])]

\* if status_sel != "(tutti)": df_view = df_view[df_view["Stato"] == status_sel]
ApplyStatus(view, status_sel) ==
    LET Keep(r) == r.Stato = status_sel
    IN  IF status_sel # ALL THEN SelectSeq(view, Keep) ELSE view

ApplyTypeSkipped(view, type_sel) == view

ApplyType(view, type_sel) ==
    LET Keep(r) == r.IssueType = type_sel
    IN  IF type_sel # ALL THEN SelectSeq(view, Keep) ELSE view

\* if user_sel != "(tutti)": df_view[df_view["UtenteId"].isin(ids)]
ApplyUser(view, user_sel, options) ==
    LET ids == OrDefault(options[user_sel], <<>>)
        Keep(r) == r.UtenteId \in Range(ids)
    IN  IF user_sel # AllUsers THEN SelectSeq(view, Keep) ELSE view

\* The order of sort_values(["Data", "Utente", "Issue"])
RowLT(a, b) ==
    \/ DateLT(a.Data, b.Data)
    \/ a.Data = b.Data /\ StrLT(a.Utente, b.Utente)
    \/ a.Data = b.Data /\ a.Utente = b.Utente /\ StrLT(a.Issue, b.Issue)

\* x inserted after the last element that is not greater than it
RECURSIVE InsertRow(_, _)
InsertRow(sorted, x) ==
    IF sorted = <<>> THEN <<x>>
    ELSE IF RowLT(x, Last(sorted))
         THEN Append(InsertRow(SubSeq(sorted, 1, Len(sorted) - 1), x), Last(sorted))
         ELSE Append(sorted, x)

RECURSIVE sort_values(_)
sort_values(view) ==
    IF view = <<>> THEN <<>>
    ELSE InsertRow(sort_values(SubSeq(view, 1, Len(view) - 1)), Last(view))

\* "Applica filtri": the three filters in the order of the code, then the sort.
FilteredView(frame, status_sel, type_sel, user_sel) ==
    sort_values(ApplyUser(ApplyType(ApplyStatus(frame, status_sel), type_sel),
                          user_sel, user_option_to_ids(frame)))

\* strftime("%d/%m/%Y")
strftime(a) ==
    << Digit(a.day \div 10), Digit(a.day % 10), "/", Digit(a.month \div 10),
       Digit(a.month % 10), "/", Digit(a.year \div 1000), Digit((a.year \div 100) % 10),
       Digit((a.year \div 10) % 10), Digit(a.year % 10) >>

RECURSIVE SumOre(_)
SumOre(view) == IF view = <<>> THEN 0 ELSE Head(view).Ore + SumOre(Tail(view))

\* VISTA 1: the rows in view order, dates formatted, UtenteId dropped
Detail(view) ==
    [i \in 1..Len(view) |->
        [Data |-> strftime(view[i].Data), Utente |-> view[i].Utente,
         IssueType |-> view[i].IssueType, Issue |-> view[i].Issue,
         Summary |-> view[i].Summary, StimaOre |-> view[i].StimaOre,
         Ore |-> view[i].Ore, Stato |-> view[i].Stato]]

\* VISTA 2: hours summed by day and user, 0 where there is none
Pivot(view) ==
    [cell \in {strftime(r.Data) : r \in Range(view)} \X {r.Utente : r \in Range(view)} |->
        LET Here(r) == strftime(r.Data) = cell[1] /\ r.Utente = cell[2]
        IN  SumOre(SelectSeq(view, Here))]

IssueGroup(r) ==
    [Issue |-> r.Issue, Summary |-> r.Summary, IssueType |-> r.IssueType,
     StimaOre |-> r.StimaOre, Stato |-> r.Stato]

\* The order of sort_values(["Ore", "Issue"], ascending=[False, True])
GroupLT(a, b) == a.Ore > b.Ore \/ (a.Ore = b.Ore /\ StrLT(a.Issue, b.Issue))

RECURSIVE SortGroups(_)
SortGroups(S) ==
    IF S = {} THEN <<>>
    ELSE LET m == CHOOSE x \in S : \A y \in S : ~GroupLT(y, x)
         IN  <<m>> \o SortGroups(S \ {m})

\* VISTA 3: hours summed per issue
PerIssue(view) ==
    SortGroups({ LET Same(r) == IssueGroup(r) = g
                 IN  [Issue |-> g.Issue, Summary |-> g.Summary, IssueType |-> g.IssueType,
                      StimaOre |-> g.StimaOre, Ore |-> SumOre(SelectSeq(view, Same)),
                      Stato |-> g.Stato] : g \in {IssueGroup(r) : r \in Range(view)} })

\* ------------------------------------------------------------------------
\* app.py: build_dataframe
\* ------------------------------------------------------------------------
SeqsUpTo(S, n) == UNION {[1..k -> S] : k \in 0..n}

\* The entries an issue can have in a cycle: one on each of the two days a
\* user can ask for, and one without a start.
CycleWorklogs == {WlOn(D0, Some(Ann), 3600), WlOn(D1, Some(Ann), 5400), WlNoStart}

\* The work logs the tracker can hold for an issue in a cycle: any list of
\* up to MaxLogs entries for K-1, one of three lists for K-2.
WorklogsOf(key) ==
    IF key = "K-1" THEN SeqsUpTo(CycleWorklogs, MaxLogs)
    ELSE { <<>>, <<WlOn(D0, Some(Ann), 8100)>>, <<WlNoStart, WlOn(D1, Some(Ann), 3600)>> }

\* What cached_issue_worklogs(key) can give: a list of entries, or the error
\* of the client.
FetchOutcomes(key) ==
    {[kind |-> "return", value |-> wls] : wls \in WorklogsOf(key)}
    \cup CacheErrors("worklog", key)

\* The tuple build_dataframe keeps of one issue.
IssueInfo(issue) ==
    LET fields == OrDefault(issue.fields, EmptyFields)
    IN  [key |-> OrDefault(issue.key, ""), summary |-> OrDefault(fields.summary, ""),
         itype |-> _issue_type_name(fields), istatus |-> _issue_status_name(fields),
         est_hours |-> _issue_estimate_hours(fields)]

\* issues_info: the issues with a key, in order
RECURSIVE IssuesInfo(_)
IssuesInfo(found) ==
    IF found = <<>> THEN <<>>
    ELSE (IF OrDefault(Head(found).key, "") = "" THEN <<>> ELSE <<IssueInfo(Head(found))>>)
         \o IssuesInfo(Tail(found))

\* future_map[fut]: the issue a future was submitted for
FutureInfoLast(info, i) == info[Len(info)]

FutureInfo(info, i) == info[i]

\* wls = cached_issue_worklogs(key) / wls = fut.result(): the call raises, or
\* gives the list.
ResultSwallowed(outcome) ==
    [raised |-> FALSE, wls |-> IF outcome.kind = "return" THEN outcome.value ELSE <<>>]

Result(outcome) ==
    [raised |-> outcome.kind = "raise",
     wls |-> IF outcome.kind = "return" THEN outcome.value ELSE <<>>]

RowsOf(info, wls) ==
    _rows_from_worklogs(wls, info.key, info.summary, info.itype, info.istatus,
                        info.est_hours, date_from, date_to)

\* pd.DataFrame(rows) and the column clean-up: on rows of _rows_from_worklogs
\* (numbers, real dates, strings) every conversion gives the value back and
\* dropna drops nothing.
DataFrame(rs) == rs

NoFuture == [state |-> "queued", outcome |-> Pending, collected |-> FALSE]

\* build_dataframe up to the branch: issues_info, and in the pool branch the
\* submission of one future per issue.
BuildStart ==
    /\ c_pc = "build" /\ b_pc = "idle"
    /\ issues_info' = IssuesInfo(app_issues)
    /\ rows' = <<>>
    /\ IF max_workers <= 1
       THEN b_pc' = "seq" /\ b_i' = 1 /\ UNCHANGED futs
       ELSE b_pc' = "pool" /\ futs' = [i \in 1..Len(issues_info') |-> NoFuture]
            /\ UNCHANGED b_i
    /\ UNCHANGED <<max_workers, b_exc, fetched>>
    /\ UNCHANGED <<clientVars, cacheVars, cycleVars, rowsVars>>

\* Sequential branch: one iteration of the for loop.
SeqFetch(outcome) ==
    /\ b_pc = "seq" /\ b_i <= Len(issues_info)
    /\ CachedCall("worklog", issues_info[b_i].key, outcome)
    /\ fetched' = Append(fetched, [i |-> b_i, outcome |-> last_call'.ret])
    /\ LET res == Result(last_call'.ret)
       IN  IF res.raised
           THEN b_pc' = "raised" /\ b_exc' = Some(last_call'.ret.error)
                /\ UNCHANGED <<rows, b_i>>
           ELSE rows' = rows \o RowsOf(issues_info[b_i], res.wls)
                /\ b_i' = b_i + 1
                /\ UNCHANGED <<b_pc, b_exc>>
    /\ UNCHANGED <<max_workers, issues_info, futs, now, ticks>>
    /\ UNCHANGED <<clientVars, cycleVars, rowsVars>>

Running == {i \in 1..Len(futs) : futs[i].state = "running"}

\* Thread pool: a free worker takes the next queued future.
WorkerStart(i) ==
    /\ b_pc \in {"pool", "shutdown"}
    /\ i \in 1..Len(futs)
    /\ futs[i].state = "queued"
    /\ \A j \in 1..(i - 1) : futs[j].state # "queued"
    /\ Cardinality(Running) < max_workers
    /\ futs' = [futs EXCEPT ![i].state = "running"]
    /\ UNCHANGED <<max_workers, b_pc, issues_info, rows, b_i, b_exc, fetched>>
    /\ UNCHANGED <<clientVars, cacheVars, cycleVars, rowsVars>>

\* Thread pool: the call of cached_issue_worklogs of a running future ends.
WorkerFinish(i, outcome) ==
    /\ b_pc \in {"pool", "shutdown"}
    /\ i \in 1..Len(futs)
    /\ futs[i].state = "running"
    /\ CachedCall("worklog", issues_info[i].key, outcome)
    /\ futs' = [futs EXCEPT ![i].state = "done", ![i].outcome = last_call'.ret]
    /\ fetched' = Append(fetched, [i |-> i, outcome |-> last_call'.ret])
    /\ UNCHANGED <<max_workers, b_pc, issues_info, rows, b_i, b_exc, now, ticks>>
    /\ UNCHANGED <<clientVars, cycleVars, rowsVars>>

\* Thread pool: one iteration of `for fut in as_completed(future_map)`.
Collect(i) ==
    /\ b_pc = "pool"
    /\ i \in 1..Len(futs)
    /\ futs[i].state = "done" /\ ~futs[i].collected
    /\ futs' = [futs EXCEPT ![i].collected = TRUE]
    /\ LET res == Result(futs[i].outcome)
       IN  IF res.raised
           THEN b_pc' = "shutdown" /\ b_exc' = Some(futs[i].outcome.error)
                /\ UNCHANGED rows
           ELSE rows' = rows \o RowsOf(FutureInfo(issues_info, i), res.wls)
                /\ UNCHANGED <<b_pc, b_exc>>
    /\ UNCHANGED <<max_workers, issues_info, b_i, fetched>>
    /\ UNCHANGED <<clientVars, cacheVars, cycleVars, rowsVars>>

\* Thread pool: the exception leaves the `with` block once every future has
\* ended (ThreadPoolExecutor.__exit__ waits for them).
PoolShutdown ==
    /\ b_pc = "shutdown"
    /\ \A i \in 1..Len(futs) : futs[i].state = "done"
    /\ b_pc' = "raised"
    /\ UNCHANGED <<max_workers, issues_info, rows, b_i, futs, b_exc, fetched>>
    /\ UNCHANGED <<clientVars, cacheVars, cycleVars, rowsVars>>

\* After the loop of either branch: the DataFrame is built and returned.
BuildReturn ==
    /\ \/ b_pc = "seq" /\ b_i > Len(issues_info)
       \/ b_pc = "pool" /\ \A i \in 1..Len(futs) : futs[i].collected
    /\ b_pc' = "returned"
    /\ df' = Some(DataFrame(rows))
    /\ UNCHANGED <<max_workers, issues_info, rows, b_i, futs, b_exc, fetched>>
    /\ UNCHANGED <<c_pc, date_from, date_to, jql_effective, app_issues, shown, views, sel,
                   df_view>>
    /\ UNCHANGED <<clientVars, cacheVars, rowsVars>>

\* ------------------------------------------------------------------------
\* app.py: the rendering cycle (the script, top to bottom)
\* ------------------------------------------------------------------------
NothingShown == [kind |-> "none"]

\* The days the user can pick in the sidebar.
UserDates == {D0, D1}

\* The lists of issues the search can give.
IssueLists == {<<>>, <<I3>>, <<I1>>, <<I1, I2>>, <<I2, I3, I1>>}

SearchOutcomes(jql) ==
    {[kind |-> "return", value |-> found] : found \in IssueLists}
    \cup CacheErrors("search", jql)

\* SIDEBAR: the two dates, the refresh button, the effective query.
Sidebar(dfrom, dto, refresh) ==
    /\ c_pc = "start"
    /\ date_from' = dfrom
    /\ date_to' = dto
    /\ IF DateLT(dto, dfrom)
       THEN /\ shown' = [kind |-> "error", text |-> "Intervallo non valido", detail |-> NONE]
            /\ c_pc' = "stopped"
            /\ UNCHANGED <<search_cache, worklog_cache, jql_effective>>
       ELSE /\ IF refresh THEN st_cache_data_clear
                          ELSE UNCHANGED <<search_cache, worklog_cache>>
            /\ jql_effective' = Some(JqlEffective(dfrom, dto))
            /\ c_pc' = "search"
            /\ UNCHANGED shown
    /\ UNCHANGED <<app_issues, df, views, sel, df_view>>
    /\ UNCHANGED <<now, ticks, last_call, fresh>>
    /\ UNCHANGED <<clientVars, buildVars, rowsVars>>

\* LOAD DATA, first block: the search.
LoadIssues(outcome) ==
    /\ c_pc = "search"
    /\ CachedCall("search", Val(jql_effective), outcome)
    /\ LET ret == last_call'.ret
       IN  IF ret.kind = "raise"
           THEN /\ shown' = [kind |-> "error", text |-> "Errore durante la search Jira:",
                             detail |-> Some(ret.error)]
                /\ c_pc' = "stopped"
                /\ UNCHANGED app_issues
           ELSE /\ app_issues' = ret.value
                /\ IF ret.value = <<>>
                   THEN /\ shown' = [kind |-> "info",
                                     text |-> "Nessuna issue trovata nel periodo selezionato.",
                                     detail |-> NONE]
                        /\ c_pc' = "stopped"
                   ELSE c_pc' = "build" /\ UNCHANGED shown
    /\ UNCHANGED <<date_from, date_to, jql_effective, df, views, sel, df_view>>
    /\ UNCHANGED <<now, ticks>>
    /\ UNCHANGED <<clientVars, buildVars, rowsVars>>

\* LOAD DATA, second block: what follows the call of build_dataframe.
AfterBuild ==
    /\ c_pc = "build"
    /\ b_pc \in {"returned", "raised"}
    /\ IF b_pc = "raised"
       THEN /\ shown' = [kind |-> "error", text |-> "Errore durante il download dei worklog:",
                         detail |-> b_exc]
            /\ c_pc' = "stopped"
       ELSE IF Val(df) = <<>>
       THEN /\ shown' = [kind |-> "info", text |-> "Nessun worklog nel range selezionato.",
                         detail |-> NONE]
            /\ c_pc' = "stopped"
       ELSE c_pc' = "filters" /\ UNCHANGED shown
    /\ UNCHANGED <<date_from, date_to, jql_effective, app_issues, df, views, sel, df_view>>
    /\ UNCHANGED <<clientVars, cacheVars, buildVars, rowsVars>>

\* POST-FILTERS to the end of the script: the three selections, the filtered
\* and sorted view, and the three views.
Render(status_sel, type_sel, user_sel) ==
    /\ c_pc = "filters"
    /\ status_sel \in Range(statuses(Val(df)))
    /\ type_sel \in Range(types(Val(df)))
    /\ user_sel \in DOMAIN user_option_to_ids(Val(df))
    /\ sel' = Some([status |-> status_sel, type |-> type_sel, user |-> user_sel])
    /\ df_view' = Some(FilteredView(Val(df), status_sel, type_sel, user_sel))
    /\ IF Val(df_view') = <<>>
       THEN /\ shown' = [kind |-> "info",
                         text |-> "Nessun dato dopo l'applicazione dei filtri.",
                         detail |-> NONE]
            /\ c_pc' = "stopped"
            /\ UNCHANGED views
       ELSE /\ views' = Some([detail |-> Detail(Val(df_view')), pivot |-> Pivot(Val(df_view')),
                              per_issue |-> PerIssue(Val(df_view'))])
            /\ c_pc' = "rendered"
            /\ UNCHANGED shown
    /\ UNCHANGED <<date_from, date_to, jql_effective, app_issues, df>>
    /\ UNCHANGED <<clientVars, cacheVars, buildVars, rowsVars>>

\* A script run that has not read its inputs yet.
InitCycleRest ==
    /\ c_pc = "start" /\ jql_effective = NONE
    /\ app_issues = <<>> /\ df = NONE /\ shown = NothingShown /\ views = NONE /\ sel = NONE
    /\ df_view = NONE
    /\ b_pc = "idle" /\ issues_info = <<>> /\ rows = <<>> /\ b_i = 0 /\ futs = <<>>
    /\ b_exc = NONE /\ fetched = <<>>

InitCycle == InitCycleRest /\ date_from = D0 /\ date_to = D0

DoSidebar == \E dfrom \in UserDates, dto \in UserDates, refresh \in BOOLEAN :
                Sidebar(dfrom, dto, refresh)

DoLoadIssues ==
    /\ c_pc = "search"
    /\ \E outcome \in SearchOutcomes(Val(jql_effective)) : LoadIssues(outcome)

DoSeqFetch ==
    /\ b_pc = "seq" /\ b_i <= Len(issues_info)
    /\ \E outcome \in FetchOutcomes(issues_info[b_i].key) : SeqFetch(outcome)

DoWorkerStart == \E i \in 1..Len(futs) : WorkerStart(i)

DoWorkerFinish ==
    \E i \in 1..Len(futs) : \E outcome \in FetchOutcomes(issues_info[i].key) :
        WorkerFinish(i, outcome)

DoCollect == \E i \in 1..Len(futs) : Collect(i)

DoRender ==
    /\ c_pc = "filters"
    /\ \E status_sel \in Range(statuses(Val(df))), type_sel \in Range(types(Val(df))),
       user_sel \in DOMAIN user_option_to_ids(Val(df)) :
        Render(status_sel, type_sel, user_sel)

NextCycle ==
    \/ DoSidebar \/ DoLoadIssues \/ BuildStart \/ DoSeqFetch \/ DoWorkerStart
    \/ DoWorkerFinish \/ DoCollect \/ PoolShutdown \/ BuildReturn \/ AfterBuild \/ DoRender

\* ------------------------------------------------------------------------
\* The two functions that turn work logs into rows, applied to one batch
\* ------------------------------------------------------------------------
WlEmptyStart == [author |-> Some(Ann), started |-> Some(<<>>), timeSpentSeconds |-> Some(3600)]

\* A start that is no date at all.
WlGarbage ==
    [author |-> Some(Ann), started |-> Some(<<"n", "o", "t", "-", "a", "-", "d", "a", "t", "e">>),
     timeSpentSeconds |-> Some(3600)]

\* A start with the shape of a date that names no day (30 February).
WlBadDay ==
    [author |-> Some(Ann),
     started |-> Some(<<"2", "0", "2", "4", "-", "0", "2", "-", "3", "0">> \o TimeSuffix),
     timeSpentSeconds |-> Some(3600)]

\* The entries a batch is made of.
BatchWorklogs ==
    { WlOn(D0, Some(Ann), 3600), WlOn(D1, Some(Ann), 5400), WlOn(D0, NONE, 1800),
      WlNoStart, WlEmptyStart, WlGarbage, WlBadDay }

\* jira_client.py, the body of the inner for loop of fetch_worklogs_by_jql:
\* strptime raises ValueError on a start that is no date; an entry without a
\* start gives a row whose Data is None.
ClientRowOfWorklog(wl, key, summary, issue_type) ==
    LET author  == IF wl.author = NONE THEN "" ELSE OrDefault(Val(wl.author).displayName, "")
        started == OrDefault(wl.started, <<>>)
        seconds == OrDefault(wl.timeSpentSeconds, 0)
        parsed  == ParseDate(Prefix(started, 10))
    IN  IF started # <<>> /\ parsed = NONE
        THEN [kind |-> "raise", error |-> "ValueError"]
        ELSE [kind |-> "return",
              value |-> << [Data |-> IF started # <<>> THEN parsed ELSE NONE,
                            Utente |-> author, IssueType |-> issue_type, Issue |-> key,
                            Summary |-> summary, Ore |-> RoundHours(seconds)] >>]

\* The inner for loop: the rows of the entries in order, or the first error.
RECURSIVE ClientRowsOfWorklogs(_, _, _, _)
ClientRowsOfWorklogs(worklogs, key, summary, issue_type) ==
    IF worklogs = <<>> THEN [kind |-> "return", value |-> <<>>]
    ELSE LET first == ClientRowOfWorklog(Head(worklogs), key, summary, issue_type)
             rest  == ClientRowsOfWorklogs(Tail(worklogs), key, summary, issue_type)
         IN  IF first.kind = "raise" THEN first
             ELSE IF rest.kind = "raise" THEN rest
             ELSE [kind |-> "return", value |-> first.value \o rest.value]

\* fetch_worklogs_by_jql on the issues `found` of the search, each of which
\* has the work logs `worklogs`.
RECURSIVE fetch_worklogs_by_jql(_, _)
fetch_worklogs_by_jql(found, worklogs) ==
    IF found = <<>> THEN [kind |-> "return", value |-> <<>>]
    ELSE LET issue  == Head(found)
             key    == OrDefault(issue.key, "")
             fields == OrDefault(issue.fields, EmptyFields)
             mine   == IF key # ""
                       THEN ClientRowsOfWorklogs(worklogs, key, OrDefault(fields.summary, ""),
                                                 OrDefault(fields.issuetype, ""))
                       ELSE [kind |-> "return", value |-> <<>>]
             rest   == fetch_worklogs_by_jql(Tail(found), worklogs)
         IN  IF mine.kind = "raise" THEN mine
             ELSE IF rest.kind = "raise" THEN rest
             ELSE [kind |-> "return", value |-> mine.value \o rest.value]

\* A call of app.py's _rows_from_worklogs on the batch, for issue I1 and the
\* dates of the sidebar.
DoRowsFromWorklogs ==
    /\ n_app = NONE
    /\ LET info == IssueInfo(I1)
       IN  n_app' = Some([kind |-> "return",
                          value |-> _rows_from_worklogs(n_batch, info.key, info.summary,
                                                        info.itype, info.istatus,
                                                        info.est_hours, date_from, date_to)])
    /\ UNCHANGED <<n_batch, n_client>>
    /\ UNCHANGED <<clientVars, cacheVars, cycleVars, buildVars>>

\* A call of jira_client.py's fetch_worklogs_by_jql when the search finds an
\* issue without a key and I1, whose work logs are the batch.
DoFetchWorklogsByJql ==
    /\ n_client = NONE
    /\ n_client' = Some(fetch_worklogs_by_jql(<<I3, I1>>, n_batch))
    /\ UNCHANGED <<n_batch, n_app>>
    /\ UNCHANGED <<clientVars, cacheVars, cycleVars, buildVars>>

NextRows == DoRowsFromWorklogs \/ DoFetchWorklogsByJql

\* ------------------------------------------------------------------------
\* app.py: POST-FILTERS on a table
\* ------------------------------------------------------------------------
\* A third issue, of the type of I1 and the status of I2.
I4 == [key |-> Some("K-3"),
       fields |-> Some([summary |-> Some("Crash"), issuetype |-> Some("Bug"),
                        status |-> Some("Done"), originalEstimateSeconds |-> NONE,
                        timeoriginalestimate |-> NONE])]

\* The authors of the entries of a table: Ann under two account ids and
\* without one, Bob under an account id of Ann, and an author without a name.
FilterAuthors ==
    { Ann,
      [accountId |-> Some("u2"), displayName |-> Some("Ann")],
      [accountId |-> NONE,       displayName |-> Some("Ann")],
      [accountId |-> Some("u1"), displayName |-> Some("Bob")],
      [accountId |-> Some("u2"), displayName |-> NONE] }

\* The rows of a table: what _rows_from_worklogs makes of an entry of one of
\* the authors on one of three issues.
FilterRows ==
    { LET info == IssueInfo(issue)
      IN  _rows_from_worklogs(<<WlOn(D0, Some(author), 3600)>>, info.key, info.summary,
                              info.itype, info.istatus, info.est_hours, D0, D0)[1] :
        issue \in {I1, I2, I4}, author \in FilterAuthors }

\* The tables the script can reach POST-FILTERS with (an empty one stops it
\* before).
FilterTables == SeqsUpTo(FilterRows, MaxRows) \ {<<>>}

\* The script at POST-FILTERS, for a table.
InitFilter ==
    /\ c_pc = "filters" /\ date_from = D0 /\ date_to = D0
    /\ jql_effective = Some(JqlEffective(D0, D0))
    /\ app_issues = <<I1, I2, I4>> /\ df \in {Some(t) : t \in FilterTables}
    /\ shown = NothingShown /\ views = NONE /\ sel = NONE /\ df_view = NONE
    /\ b_pc = "returned" /\ issues_info = IssuesInfo(<<I1, I2, I4>>) /\ rows = <<>>
    /\ b_i = 0 /\ futs = <<>> /\ b_exc = NONE /\ fetched = <<>>

\* ------------------------------------------------------------------------
\* Claims about the remote query client (checked under SpecClient)
\* ------------------------------------------------------------------------
SearchBatches == [k \in 1..Len(s_recv) |-> OrDefault(s_recv[k].issues, <<>>)]

\* The server has answered N >= 1 successful pages, the first N-1 with a
\* (non-empty) continuation token and the N-th without one.
SearchServerDone ==
    /\ Len(s_recv) >= 1
    /\ \A k \in 1..Len(s_recv) : s_recv[k].ok
    /\ \A k \in 1..(Len(s_recv) - 1) : TruthyStr(s_recv[k].nextPageToken)
    /\ Last(s_recv).nextPageToken = NONE

\* C1: when the server has answered N successful pages of which only the last
\* omits the continuation token, the search call has returned after exactly N
\* requests, the first without a token and the k-th carrying the token of
\* response k-1, and its result is the concatenation of the N batches in order.
C1_SearchPagination ==
    SearchServerDone =>
        /\ s_pc = "returned"
        /\ Len(s_sent) = Len(s_recv)
        /\ s_sent[1].nextPageToken = NONE
        /\ \A k \in 2..Len(s_sent) : s_sent[k].nextPageToken = s_recv[k - 1].nextPageToken
        /\ s_ret = [kind |-> "return", value |-> Concat(SearchBatches)]

C1_Witness ==
    /\ SearchServerDone
    /\ Len(s_recv) = 3
    /\ s_recv[1].nextPageToken # s_recv[2].nextPageToken
    /\ \A k \in 1..3 : SearchBatches[k] # <<>>
    /\ s_pc = "returned"

WorklogPages == [k \in 1..Len(w_recv) |-> OrDefault(w_recv[k].worklogs, <<>>)]

\* Every answer so far was a success reporting the same, fixed total.
WorklogServerFixedTotal ==
    \A k \in 1..Len(w_recv) : w_recv[k].ok /\ w_recv[k].total = Some(srv_total)

\* C2: against a server with a fixed reported total, every request's offset is
\* the number of entries received so far; the loop ends within max(1, total)
\* requests; if every page asked below the total was non-empty the call returns
\* exactly the server's `total` entries; and an empty page ends the loop at that
\* page, without error, returning the entries received so far.
C2_WorklogPagination ==
    (w_pc # "idle" /\ WorklogServerFixedTotal) =>
        /\ \A k \in 1..Len(w_sent) :
              w_sent[k].startAt = SumLen(SubSeq(WorklogPages, 1, k - 1))
        /\ Len(w_sent) <= (IF srv_total > 1 THEN srv_total ELSE 1)
        /\ w_pc \in {"loop", "returned"}
        /\ (w_pc = "loop" /\ w_recv # <<>>) => SumLen(WorklogPages) < srv_total
        /\ (w_pc = "returned"
              /\ \A k \in 1..Len(w_recv) :
                    w_sent[k].startAt < srv_total => WorklogPages[k] # <<>>)
             => /\ w_ret = [kind |-> "return", value |-> ServerWorklogs(issue_key, srv_total)]
                /\ Len(w_ret.value) = srv_total
        /\ \A k \in 1..Len(w_recv) :
              WorklogPages[k] = <<>> =>
                 /\ k = Len(w_recv) /\ k = Len(w_sent)
                 /\ w_ret = [kind |-> "return", value |-> Concat(SubSeq(WorklogPages, 1, k - 1))]

C2_Witness ==
    /\ WorklogServerFixedTotal
    /\ w_pc = "returned"
    /\ srv_total = 3
    /\ Len(w_recv) = 2
    /\ Len(WorklogPages[1]) = 2
    /\ Len(w_ret.value) = 3

\* C8: in both client calls a non-success response is the last response of the
\* call: no request follows it, the call has raised an error carrying the
\* status code and the error body (parsed when it is JSON, raw otherwise) and,
\* for work logs, the issue key, and nothing accumulated so far is returned.
C8_ClientFailure ==
    /\ \A k \in 1..Len(s_recv) :
          ~s_recv[k].ok =>
             /\ k = Len(s_recv) /\ k = Len(s_sent)
             /\ s_pc = "raised"
             /\ s_ret.kind = "raise"
             /\ s_ret.error.endpoint = <<"/search/jql">>
             /\ s_ret.error.status = s_recv[k].status
             /\ s_ret.error.details =
                  (IF s_recv[k].body.is_json THEN [json |-> s_recv[k].body.text]
                                             ELSE [text |-> s_recv[k].body.text])
    /\ \A k \in 1..Len(w_recv) :
          ~w_recv[k].ok =>
             /\ k = Len(w_recv) /\ k = Len(w_sent)
             /\ w_pc = "raised"
             /\ w_ret.kind = "raise"
             /\ w_ret.error.endpoint = <<"/issue/", issue_key, "/worklog">>
             /\ w_ret.error.status = w_recv[k].status
             /\ w_ret.error.details =
                  (IF w_recv[k].body.is_json THEN [json |-> w_recv[k].body.text]
                                             ELSE [text |-> w_recv[k].body.text])

C8_Witness ==
    /\ w_pc = "raised"
    /\ Len(w_recv) = 3
    /\ Len(out) = 2
    /\ ~w_recv[3].ok

\* ------------------------------------------------------------------------
\* Claims about the rendering cycle (checked under Spec)
\* ------------------------------------------------------------------------
HasKey(issue) == issue.key # NONE /\ issue.key # Some("")

\* The issues of the search result that have a key, in order.
Keyed == SelectSeq(app_issues, HasKey)

\* The fetches (positions in `fetched`) made for the i-th keyed issue.
FetchesFor(i) == {k \in 1..Len(fetched) : fetched[k].i = i}

FailedFetches == {k \in 1..Len(fetched) : fetched[k].outcome.kind = "raise"}

\* The work logs the fetch for the i-th keyed issue gave.
WlsFor(i) == fetched[CHOOSE k \in FetchesFor(i) : TRUE].outcome.value

CountOf(x, seq) == Cardinality({k \in 1..Len(seq) : seq[k] = x})

\* Multiset equality of two sequences.
SameBag(a, b) ==
    /\ Range(a) = Range(b)
    /\ \A x \in Range(a) : CountOf(x, a) = CountOf(x, b)

\* C3: once the work-log fetch of any issue has failed, in either branch and
\* whatever the order in which the fetches end, build_dataframe never returns
\* a table, no view is ever produced, the cycle can always go on until it has
\* stopped, and when it has stopped it shows the error of a failed fetch.
C3_FetchFailureAborts ==
    FailedFetches # {} =>
        /\ df = NONE
        /\ b_pc \in {"seq", "pool", "shutdown", "raised"}
        /\ views = NONE
        /\ c_pc \in {"build", "stopped"}
        /\ c_pc = "build" => ENABLED NextCycle
        /\ c_pc = "stopped" =>
              /\ shown.kind = "error"
              /\ shown.detail \in {Some(fetched[k].outcome.error) : k \in FailedFetches}

C3_Witness ==
    /\ FailedFetches # {}
    /\ max_workers > 1
    /\ Len(fetched) = 2
    /\ rows # <<>>
    /\ c_pc = "stopped"

\* The rows the i-th keyed issue must give: one per entry that
\* _rows_from_worklogs admits, each with the issue's own key, summary, type,
\* status and estimate.
OwnRows(i) ==
    LET fields == OrDefault(Keyed[i].fields, EmptyFields)
    IN  _rows_from_worklogs(WlsFor(i), Val(Keyed[i].key), OrDefault(fields.summary, ""),
                            OrDefault(fields.issuetype, ""), OrDefault(fields.status, ""),
                            _issue_estimate_hours(fields), date_from, date_to)

\* C4: when build_dataframe returns, in the sequential branch and in the
\* thread-pool branch alike, every issue with a key has been fetched exactly
\* once and the rows are, as a multiset, the rows of each issue's own work
\* logs with that issue's own key, summary, type, status and estimate (in the
\* sequential branch also in issue order); so both branches give the same
\* multiset for the same issues and work logs.
C4_BranchesAgree ==
    b_pc = "returned" =>
        /\ Len(fetched) = Len(Keyed)
        /\ \A i \in 1..Len(Keyed) : Cardinality(FetchesFor(i)) = 1
        /\ SameBag(rows, Concat([i \in 1..Len(Keyed) |-> OwnRows(i)]))
        /\ max_workers <= 1 => rows = Concat([i \in 1..Len(Keyed) |-> OwnRows(i)])
        /\ df = Some(rows)

C4_Witness ==
    /\ b_pc = "returned"
    /\ max_workers > 1
    /\ Len(Keyed) = 2
    /\ OwnRows(1) # <<>> /\ OwnRows(2) # <<>>
    /\ rows = OwnRows(2) \o OwnRows(1)

\* The day of an entry, NONE when it has no start or the start is no date.
EntryDay(wl) == ParseDate(Prefix(OrDefault(wl.started, <<>>), 10))

InRequestedRange(wl) ==
    /\ EntryDay(wl) # NONE
    /\ DateLE(date_from, Val(EntryDay(wl)))
    /\ DateLE(Val(EntryDay(wl)), date_to)

\* C6: in the table of a cycle, the number of rows of each issue is the number
\* of its entries whose start date lies in [date_from, date_to], bounds
\* included; no row's date lies outside that range; the dates widened by
\* MARGIN_DAYS appear in the search query only.
C6_RowAdmission ==
    df # NONE =>
        /\ \A i \in 1..Len(Keyed) :
              Cardinality({k \in 1..Len(Val(df)) : Val(df)[k].Issue = Val(Keyed[i].key)})
              = Cardinality({j \in 1..Len(WlsFor(i)) : InRequestedRange(WlsFor(i)[j])})
        /\ \A k \in 1..Len(Val(df)) :
              DateLE(date_from, Val(df)[k].Data) /\ DateLE(Val(df)[k].Data, date_to)
        /\ Val(jql_effective).updated_from = isoformat(MinusDays(date_from, MARGIN_DAYS))
        /\ Val(jql_effective).updated_to = isoformat(PlusDays(date_to, MARGIN_DAYS))

C6_Witness ==
    /\ df # NONE
    /\ date_from = D1 /\ date_to = D1
    /\ Val(jql_effective).updated_from = <<"2", "0", "2", "3", "-", "1", "2", "-", "3", "1">>
    /\ Val(jql_effective).updated_to = <<"2", "0", "2", "4", "-", "0", "1", "-", "0", "6">>
    /\ Len(Keyed) >= 1
    /\ WlsFor(1) = <<WlOn(D0, Some(Ann), 3600), WlOn(D1, Some(Ann), 5400)>>
    /\ Len(Val(df)) = 1

\* ------------------------------------------------------------------------
\* Claims about the result cache (checked under SpecCache)
\* ------------------------------------------------------------------------
\* C5: for a call of either memoized function made while the time since the
\* start is within the slot's time-to-live, the network layer is invoked if
\* and only if no call with the same key has succeeded since the last refresh
\* (or the start), and a hit returns the value that earlier call stored; a
\* refresh leaves both slots empty.
C5_CacheContract ==
    /\ (last_call.kind = "call" /\ last_call.in_window) =>
          /\ last_call.net <=> last_call.fresh_before = {}
          /\ ~last_call.net =>
                last_call.ret \in {[kind |-> "return", value |-> f.value] :
                                     f \in last_call.fresh_before}
    /\ last_call.kind = "refresh" => search_cache = {} /\ worklog_cache = {}
    /\ \A f \in fresh.search : Cardinality({g \in fresh.search : g.key = f.key}) = 1
    /\ \A f \in fresh.worklog : Cardinality({g \in fresh.worklog : g.key = f.key}) = 1

\* A work-log call that is answered from the cache, some time after the
\* value was stored, while a search entry for another query is cached too.
C5_Witness ==
    /\ last_call.kind = "call"
    /\ last_call.slot = "worklog"
    /\ last_call.in_window
    /\ ~last_call.net
    /\ now > 0
    /\ search_cache # {}

\* ------------------------------------------------------------------------
\* Claims about the row normalizers (checked under SpecRows)
\* ------------------------------------------------------------------------
Malformed(wl) == EntryDay(wl) = NONE

WellFormed(batch) == SelectSeq(batch, LAMBDA wl : ~Malformed(wl))

\* The part of C7 that is about _rows_from_worklogs: it returns, with one row
\* for each entry of the batch that has a start date in the requested range,
\* and none for the others.
C7_AppSkipsMalformed ==
    n_app # NONE =>
        /\ Val(n_app).kind = "return"
        /\ Len(Val(n_app).value) = Len(SelectSeq(n_batch, InRequestedRange))
        /\ \A k \in 1..Len(Val(n_app).value) :
              LET r == Val(n_app).value[k]
              IN  DateLE(date_from, r.Data) /\ DateLE(r.Data, date_to)

\* C7: in _rows_from_worklogs and in fetch_worklogs_by_jql alike, an entry
\* whose start is missing, empty or has an unparseable date portion gives no
\* row and no error, and the other entries of the batch are processed: the
\* function returns, and fetch_worklogs_by_jql returns one row, with a date,
\* for each well-formed entry.
C7_MalformedSkipped ==
    /\ C7_AppSkipsMalformed
    /\ n_client # NONE =>
          /\ Val(n_client).kind = "return"
          /\ Len(Val(n_client).value) = Len(WellFormed(n_batch))
          /\ \A k \in 1..Len(Val(n_client).value) :
                Val(n_client).value[k].Data = EntryDay(WellFormed(n_batch)[k])

\* ------------------------------------------------------------------------
\* Claims about the filters (checked under SpecFilter)
\* ------------------------------------------------------------------------
\* The ids of the selected user option.
SelectedIds == OrDefault(user_option_to_ids(Val(df))[Val(sel).user], <<>>)

Selected(r) ==
    /\ Val(sel).status = ALL \/ r.Stato = Val(sel).status
    /\ Val(sel).type = ALL \/ r.IssueType = Val(sel).type
    /\ Val(sel).user = AllUsers \/ r.UtenteId \in Range(SelectedIds)

\* The three filters in each of their six orders.
FilterOrders ==
    LET S(v) == ApplyStatus(v, Val(sel).status)
        T(v) == ApplyType(v, Val(sel).type)
        U(v) == ApplyUser(v, Val(sel).user, user_option_to_ids(Val(df)))
        t == Val(df)
    IN  { S(T(U(t))), S(U(T(t))), T(S(U(t))), T(U(S(t))), U(S(T(t))), U(T(S(t))) }

\* C9: for every table and selection the filtered view holds exactly the rows
\* that satisfy the conjunction of the three predicates (each row as often as
\* the table has it), with every selection at "(tutti)" it holds every row,
\* and the three filters give the same view in each of their six orders.
C9_FilterApplication ==
    df_view # NONE =>
        /\ SameBag(Val(df_view), SelectSeq(Val(df), Selected))
        /\ (Val(sel).status = ALL /\ Val(sel).type = ALL /\ Val(sel).user = AllUsers)
              => SameBag(Val(df_view), Val(df))
        /\ \A v \in FilterOrders : sort_values(v) = Val(df_view)

C9_Witness ==
    /\ df_view # NONE
    /\ Val(sel).status # ALL /\ Val(sel).type # ALL /\ Val(sel).user # AllUsers
    /\ Len(Val(df)) = 2 /\ Len(Val(df_view)) = 1
    /\ \E r \in Range(Val(df)) : r.Stato # Val(sel).status

\* C10: selecting a user option other than "(tutti)", with status and issue
\* type at "(tutti)", gives exactly the rows whose Utente is the name the
\* option was built from.
C10_UserOptionSelectsName ==
    (df_view # NONE /\ Val(sel).user # AllUsers /\ Val(sel).status = ALL /\ Val(sel).type = ALL)
        => SameBag(Val(df_view),
                   SelectSeq(Val(df), LAMBDA r : r.Utente = Val(sel).user.name))

\* ------------------------------------------------------------------------
\* Specifications
\* ------------------------------------------------------------------------
InitRows == n_batch = <<>> /\ n_app = NONE /\ n_client = NONE

\* A fresh process: no call started, empty caches, a script run about to
\* start, with the worker limit as shipped or set to 1.
Init == InitClient /\ InitCache /\ InitCycle /\ InitRows /\ max_workers \in {1, MAX_WORKERS}

Next == NextCycle

\* One rendering cycle of the dashboard.
Spec == Init /\ [][Next]_vars

InitShipped == InitClient /\ InitCache /\ InitCycle /\ InitRows /\ max_workers = MAX_WORKERS

\* The remote query client: one call of either function.
SpecClient == InitShipped /\ [][NextClient]_vars

\* The result cache: calls of the two memoized functions, refreshes, time.
SpecCache == InitShipped /\ [][NextCache]_vars

\* The two row normalizers on a batch of work logs and a range of dates.
InitBatch ==
    /\ InitClient /\ InitCache /\ InitCycleRest /\ max_workers = MAX_WORKERS
    /\ date_from \in UserDates /\ date_to \in UserDates /\ DateLE(date_from, date_to)
    /\ n_batch \in SeqsUpTo(BatchWorklogs, MaxBatch) /\ n_app = NONE /\ n_client = NONE

SpecRows == InitBatch /\ [][NextRows]_vars

\* The filters on a table.
InitTable == InitClient /\ InitCache /\ InitFilter /\ InitRows /\ max_workers = MAX_WORKERS

NextFilter == DoRender

SpecFilter == InitTable /\ [][NextFilter]_vars

====
